---- MODULE Spec2Model ----
(***************************************************************************)
(* Model of the geospatial candidate-ranking engine of llm-core:           *)
(* src/src/location_poi/get_top_candidates.py.                             *)
(*                                                                         *)
(* Geometry is one-dimensional: every coordinate lies on one meridian, a   *)
(* latitude is a position in metres along it and the longitude is always   *)
(* 0, so the great-circle distance of two points is the absolute           *)
(* difference of their latitudes.  The road network of each travel mode    *)
(* is a fixed directed graph whose node i lies at latitude i.              *)
(*                                                                         *)
(* Specifications:                                                         *)
(*   Spec          requests one after the other, each pool as one step     *)
(*   SeqSpec       get_network_graph step by step, calls one after another *)
(*   CacheSpec     get_network_graph step by step, two calls side by side  *)
(*   PoolSpec      one request with the tasks of each pool interleaved     *)
(*   FairPoolSpec  PoolSpec with fair scheduling and returning calls       *)
(*   DistSpec      requests whose radius reaches the caps of graph_dist    *)
(*   FinderSpec    calls of TopCandidatesFinder.find_top_candidates        *)
(***************************************************************************)
EXTENDS Integers, Sequences, FiniteSets, TLC

\* ---------------------------------------------------------------- bounds
MaxLat == 2
MaxRadius == 2
MaxN == 2
MaxCore == 2
\* longest list whose workers are followed in every order of completion
MaxPool == 2
\* graphs stored beyond the capacity of the cache
MaxExtra == 1

\* ------------------------------------------------------ program constants
MAX_CACHE_SIZE == 50
PREFILTER_THRESHOLD == 50
MAX_WORKERS == 32
\* float('inf'): larger than every path length of the model
Inf == 1000000

\* float('nan'): a latitude the node index rejects
NaN == 0 - 1
\* markers of a raised exception inside the pure operators
ResolveError == 0 - 1
NoPath == 0 - 1

Modes == <<"drive", "walk">>
ModeSet == {"drive", "walk"}
Lats == 0..MaxLat
UserLon == 0
\* Where the user stands: at the inner end of the network or at its outer,
\* one-way end.
UserLats == {0, MaxLat}

Abs(x) == IF x < 0 THEN 0 - x ELSE x
Min(a, b) == IF a <= b THEN a ELSE b

\* ------------------------------------------------------------ POI records
\* A POI is a Python dict: the set of its keys and the value of each key.
RequiredKeys == {"latitude", "longitude", "subcategory"}
DistKey(mode) == IF mode = "drive" THEN "drive_route_distance_m"
                 ELSE "walk_route_distance_m"
AllKeys == RequiredKeys \cup {"drive_route_distance_m", "walk_route_distance_m", "distance_m"}

Has(poi, k) == k \in poi.keys
Get(poi, k) == poi.val[k]
DictSet(poi, k, v) == [keys |-> poi.keys \cup {k}, val |-> [poi.val EXCEPT ![k] = v]]
MkPOI(keys, lat) == [keys |-> keys,
                     val |-> [k \in AllKeys |-> IF k = "latitude" /\ k \in keys THEN lat ELSE 0]]
NoPOI == MkPOI({}, 0)

\* The candidate records callers hand in: complete records at every latitude,
\* a record whose latitude is NaN, a record without subcategory, a record
\* without latitude.
CandidatePool ==
    {MkPOI(RequiredKeys, lat) : lat \in Lats \cup {NaN}}
    \cup {MkPOI({"latitude", "longitude"}, 1), MkPOI({"longitude", "subcategory"}, 0)}

Filler == MkPOI(RequiredKeys, MaxLat)

RECURSIVE Repeat(_, _)
Repeat(x, k) == IF k = 0 THEN <<>> ELSE <<x>> \o Repeat(x, k - 1)

RECURSIVE SeqsUpTo(_, _)
SeqsUpTo(S, k) == IF k = 0 THEN {<<>>}
                  ELSE LET r == SeqsUpTo(S, k - 1)
                       IN r \cup {Append(s, x) : s \in {t \in r : Len(t) = k - 1}, x \in S}

\* Candidate lists: the short lists, and the lists of PREFILTER_THRESHOLD
\* copies of one record with at most one record before them, so that lists
\* at and above the threshold occur.
CandidateLists ==
    SeqsUpTo(CandidatePool, MaxCore)
    \cup {core \o Repeat(Filler, PREFILTER_THRESHOLD) : core \in SeqsUpTo(CandidatePool, 1)}

\* ------------------------------------------------------- the road network
\* graph_from_point is the external provider.  What it answers is the part
\* of the mode's road network that lies within dist of the centre.  Walking
\* paths run both ways with length 1; roads have length 2 and the last road
\* segment is one-way towards the centre of the network.
WALK_DIST_CAP == 2000
DRIVE_DIST_CAP == 5000

WorldEdges(network_type) ==
    IF network_type = "walk"
    THEN {<<i, i + 1, 1>> : i \in 0..(MaxLat - 1)} \cup {<<i + 1, i, 1>> : i \in 0..(MaxLat - 1)}
    ELSE {<<i, i + 1, 2>> : i \in 0..(MaxLat - 2)} \cup {<<i + 1, i, 2>> : i \in 0..(MaxLat - 1)}

\* dist2 is twice the distance handed to the provider (radius_m * 1.5 is not
\* an integer).
GraphFromPoint(center_lat, dist2, network_type) ==
    LET nodes == {v \in Lats : 2 * Abs(v - center_lat) <= dist2}
    IN [nodes |-> nodes,
        edges |-> {e \in WorldEdges(network_type) : e[1] \in nodes /\ e[2] \in nodes}]

\* The value None of get_network_graph; a built graph is never empty.
None == [nodes |-> {}, edges |-> {}]

\* nx.astar_path_length: the length of a shortest path of at most hops edges,
\* NoPath when there is none.
RECURSIVE PathLengthWithin(_, _, _, _)
PathLengthWithin(g, source, target, hops) ==
    IF source = target THEN 0
    ELSE IF hops = 0 THEN NoPath
    ELSE LET out == {e \in g.edges : e[1] = source}
             via == {[len |-> e[3], rest |-> PathLengthWithin(g, e[2], target, hops - 1)] : e \in out}
             found == {c.len + c.rest : c \in {x \in via : x.rest # NoPath}}
         IN IF found = {} THEN NoPath
            ELSE CHOOSE d \in found : \A o \in found : d <= o

AstarPathLength(g, source, target) ==
    PathLengthWithin(g, source, target, Cardinality(g.nodes))

\* nx.strongly_connected_components and max(..., key=len): the components of
\* greatest size.  Which of several greatest ones max() meets first is left
\* open.
ComponentOf(g, v) ==
    {w \in g.nodes : AstarPathLength(g, v, w) # NoPath /\ AstarPathLength(g, w, v) # NoPath}

\* the whole node set kept, no component taken
LargestComponentsWhole(g) == {g.nodes}

LargestComponents(g) ==
    LET comps == {ComponentOf(g, v) : v \in g.nodes}
    IN {c \in comps : \A o \in comps : Cardinality(o) <= Cardinality(c)}

Subgraph(g, nodes) ==
    [nodes |-> nodes, edges |-> {e \in g.edges : e[1] \in nodes /\ e[2] \in nodes}]

\* a graph_dist without the two caps
GraphDist2NoCap(radius, travel_mode) ==
    IF travel_mode = "walk" THEN 3 * radius ELSE 4 * radius

\* graph_dist of get_network_graph, doubled.
GraphDist2(radius, travel_mode) ==
    IF travel_mode = "walk" THEN Min(3 * radius, 2 * WALK_DIST_CAP)
    ELSE Min(4 * radius, 2 * DRIVE_DIST_CAP)

\* The keyword arguments of the call of graph_from_point: dist (doubled),
\* network_type and simplify.
ProviderRequest(radius, travel_mode) ==
    [dist2 |-> GraphDist2(radius, travel_mode),
     network_type |-> travel_mode,
     simplify |-> travel_mode # "walk"]
NoRequest == [dist2 |-> 0, network_type |-> "none", simplify |-> FALSE]

\* ------------------------------------------------------------- the cache
\* cached_graph is an OrderedDict: a sequence of entries in insertion order.
GraphKey(lat, lon, radius, travel_mode) == <<lat, lon, radius, travel_mode>>
CacheKeys(cache) == {cache[i].key : i \in 1..Len(cache)}
CacheLookup(cache, key) == (CHOOSE i \in 1..Len(cache) : cache[i].key = key)

\* a store that always adds an entry, as a list of pairs would
DictStoreAppend(cache, key, g) == Append(cache, [key |-> key, graph |-> g])

\* cached_graph[graph_key] = graph: a key already there keeps its place
DictStore(cache, key, g) ==
    IF key \in CacheKeys(cache)
    THEN [i \in 1..Len(cache) |-> IF cache[i].key = key THEN [key |-> key, graph |-> g] ELSE cache[i]]
    ELSE Append(cache, [key |-> key, graph |-> g])

\* cache_graph: drop the oldest entry when full, then store
CacheGraph(cache, key, g) ==
    LET kept == IF Len(cache) >= MAX_CACHE_SIZE THEN Tail(cache) ELSE cache
    IN DictStore(kept, key, g)

\* -------------------------------------------------------- route distance
\* distance.nearest_nodes: the node nearest to the latitude, the lowest one
\* of two equally near; it raises for NaN.
GetNodeForCoords(g, lat) ==
    IF lat = NaN \/ g.nodes = {} THEN ResolveError
    ELSE CHOOSE v \in g.nodes :
            \A w \in g.nodes : Abs(v - lat) < Abs(w - lat) \/ (Abs(v - lat) = Abs(w - lat) /\ v <= w)

\* get_route_distance without the outer except: the resolver's exception
\* comes out of it
GetRouteDistanceNoCatch(g, u_lat, candidate_lat) ==
    LET user_node == GetNodeForCoords(g, u_lat)
        candidate_node == GetNodeForCoords(g, candidate_lat)
    IN IF user_node = ResolveError \/ candidate_node = ResolveError THEN ResolveError
       ELSE IF user_node \notin g.nodes \/ candidate_node \notin g.nodes THEN Inf
       ELSE IF user_node = candidate_node THEN 0
       ELSE LET path_length == AstarPathLength(g, user_node, candidate_node)
            IN IF path_length = NoPath THEN Inf ELSE path_length

GetRouteDistance(g, u_lat, candidate_lat) ==
    LET user_node == GetNodeForCoords(g, u_lat)
        candidate_node == GetNodeForCoords(g, candidate_lat)
    IN IF user_node = ResolveError \/ candidate_node = ResolveError THEN Inf
       ELSE IF user_node \notin g.nodes \/ candidate_node \notin g.nodes THEN Inf
       ELSE IF user_node = candidate_node THEN 0
       ELSE LET path_length == AstarPathLength(g, user_node, candidate_node)
            IN IF path_length = NoPath THEN Inf ELSE path_length

\* ------------------------------------------------------ candidate ranking
\* a validate_poi_data that lets every record pass
ValidatePoiDataAlways(poi) == TRUE

\* validate_poi_data: TRUE when the record passes, FALSE when it raises
\* ValueError.
ValidatePoiData(poi) == RequiredKeys \subseteq poi.keys

\* What one call of a function yields: a value, None, or a raised exception.
Value(poi) == [tag |-> "poi", poi |-> poi]
Nothing == [tag |-> "none", poi |-> NoPOI]
Raised == [tag |-> "raise", poi |-> NoPOI]

\* process_candidate without the radius test
ProcessCandidateNoRadius(g, u_lat, poi, travel_mode, radius) ==
    IF ~Has(poi, "latitude") \/ ~Has(poi, "longitude") THEN Nothing
    ELSE LET route_distance == GetRouteDistance(g, u_lat, Get(poi, "latitude"))
         IN IF route_distance = Inf THEN Nothing
            ELSE LET poi_copy == DictSet(poi, DistKey(travel_mode), route_distance)
                 IN IF ValidatePoiData(poi_copy) THEN Value(poi_copy) ELSE Raised

\* process_candidate with >= for > in the radius test
ProcessCandidateStrict(g, u_lat, poi, travel_mode, radius) ==
    IF ~Has(poi, "latitude") \/ ~Has(poi, "longitude") THEN Nothing
    ELSE LET route_distance == GetRouteDistance(g, u_lat, Get(poi, "latitude"))
         IN IF route_distance = Inf \/ route_distance >= radius THEN Nothing
            ELSE LET poi_copy == DictSet(poi, DistKey(travel_mode), route_distance)
                 IN IF ValidatePoiData(poi_copy) THEN Value(poi_copy) ELSE Raised

\* process_candidate
ProcessCandidate(g, u_lat, poi, travel_mode, radius) ==
    IF ~Has(poi, "latitude") \/ ~Has(poi, "longitude") THEN Nothing
    ELSE LET route_distance == GetRouteDistance(g, u_lat, Get(poi, "latitude"))
         IN IF route_distance = Inf \/ route_distance > radius THEN Nothing
            ELSE LET poi_copy == DictSet(poi, DistKey(travel_mode), route_distance)
                 IN IF ValidatePoiData(poi_copy) THEN Value(poi_copy) ELSE Raised

\* list.sort(key=...): a stable sort by the value of one key.  The sorted
\* list is, for each value of the key in ascending order, the records with
\* that value in the order they had.
RECURSIVE ByAscendingKey(_, _, _)
ByAscendingKey(s, k, values) ==
    IF values = {} THEN <<>>
    ELSE LET least == CHOOSE v \in values : \A w \in values : v <= w
         IN SelectSeq(s, LAMBDA x : Get(x, k) = least) \o ByAscendingKey(s, k, values \ {least})

\* a sort that leaves the list as it is
SortByKeyNoSort(s, k) == s

\* a sort that puts records of equal key in the reverse of their order
SortByKeyTiesReversed(s, k) ==
    ByAscendingKey([i \in 1..Len(s) |-> s[Len(s) + 1 - i]], k, {Get(s[i], k) : i \in 1..Len(s)})

SortByKey(s, k) == ByAscendingKey(s, k, {Get(s[i], k) : i \in 1..Len(s)})

\* the slice s[:count + 1]
SlicePrefixOneMore(s, count) == SubSeq(s, 1, Min(count + 1, Len(s)))

\* The slice s[:count]
SlicePrefix(s, count) ==
    IF count >= 0 THEN SubSeq(s, 1, Min(count, Len(s)))
    ELSE SubSeq(s, 1, IF Len(s) + count > 0 THEN Len(s) + count ELSE 0)

\* The results of executor.map(process_candidate, args_list), in input order.
MapProcess(g, cands, u_lat, travel_mode, radius) ==
    [i \in 1..Len(cands) |-> ProcessCandidate(g, u_lat, cands[i], travel_mode, radius)]

\* The calls of get_route_distance in that pass, one for each candidate that
\* has both coordinates, in input order: the latitude asked for and the
\* value returned.
DistancesFor(g, cands, u_lat) ==
    LET with == SelectSeq(cands, LAMBDA poi : Has(poi, "latitude") /\ Has(poi, "longitude"))
    IN [i \in 1..Len(with) |->
          [lat |-> Get(with[i], "latitude"),
           d |-> GetRouteDistance(g, u_lat, Get(with[i], "latitude"))]]

\* valid_candidates after the sort, before the truncation
SortedValid(g, cands, u_lat, travel_mode, radius) ==
    LET results == MapProcess(g, cands, u_lat, travel_mode, radius)
        kept == SelectSeq(results, LAMBDA r : r.tag = "poi")
    IN SortByKey([i \in 1..Len(kept) |-> kept[i].poi], DistKey(travel_mode))

\* One pass of the loop body of get_top_n_by_route_distance_for_all_modes for
\* a mode whose graph is there: the list stored under the mode, or a raise
\* when the pool cannot be made (max_workers = 0) or a worker's exception
\* comes out of executor.map.
RankForMode(g, cands, u_lat, travel_mode, radius, count) ==
    IF Min(MAX_WORKERS, Len(cands)) <= 0 THEN [tag |-> "raise", list |-> <<>>]
    ELSE LET results == MapProcess(g, cands, u_lat, travel_mode, radius)
         IN IF \E i \in 1..Len(results) : results[i].tag = "raise"
            THEN [tag |-> "raise", list |-> <<>>]
            ELSE [tag |-> "ok",
                  list |-> SlicePrefix(SortedValid(g, cands, u_lat, travel_mode, radius), count)]

\* haversine_distance on one meridian; NaN in, NaN out.
HaversineDistance(lat1, lat2) ==
    IF lat1 = NaN \/ lat2 = NaN THEN NaN ELSE Abs(lat2 - lat1)

\* a prefilter that keeps every candidate
PrefilterKeepAll(cands, u_lat, max_distance_2) == cands

\* prefilter_candidates_by_distance; max_distance_2 is twice max_distance_m.
\* A comparison with NaN is false.
PrefilterCandidatesByDistance(cands, u_lat, max_distance_2) ==
    SelectSeq(cands, LAMBDA poi :
        /\ Has(poi, "latitude") /\ Has(poi, "longitude")
        /\ LET distance == HaversineDistance(u_lat, Get(poi, "latitude"))
           IN distance # NaN /\ 2 * distance <= max_distance_2)

\* A mapping from mode to list (a Python dict): its keys and their values.
EmptyDict == [keys |-> {}, val |-> [m \in ModeSet |-> <<>>]]
DictPut(d, m, list) == [keys |-> d.keys \cup {m}, val |-> [d.val EXCEPT ![m] = list]]
DictGetOr(d, m, default) == IF m \in d.keys THEN d.val[m] ELSE default

\* validate_top_candidates
ValidateTopCandidates(d) ==
    LET lists == [m \in ModeSet |-> DictGetOr(d, m, <<>>)]
    IN IF \E m \in ModeSet : \E i \in 1..Len(lists[m]) : ~ValidatePoiData(lists[m][i])
       THEN [kind |-> "raise", value |-> EmptyDict]
       ELSE [kind |-> "return", value |-> [keys |-> ModeSet, val |-> lists]]

NoResult == [kind |-> "none", value |-> EmptyDict]
Returned(d) == [kind |-> "return", value |-> d]
RaisedResult == [kind |-> "raise", value |-> EmptyDict]

\* ------------------------------------------------ executor and threads
\* A ThreadPoolExecutor: state "none" before it is made, "open" inside the
\* with block, "aborting" once an exception left executor.map (the tasks
\* not yet started are cancelled), "shut" after shutdown(wait=True).
\* Tasks are numbered as the candidates; the queue is first in, first out,
\* so the tasks started are 1..started.
NoPool == [state |-> "none", max_workers |-> 0, submitted |-> 0, started |-> 0,
           running |-> {}, completed |-> <<>>]

\* The threads that call get_network_graph side by side
Threads == {"t1", "t2"}
\* The keys they ask for, numbered in the order of their first request
KeyIds == 1..(MAX_CACHE_SIZE + MaxExtra)
KeyOf(i) ==
    GraphKey(IF ((i - 1) \div 2) % 2 = 0 THEN 0 ELSE MaxLat, UserLon,
             ((i - 1) \div 4) + 1, Modes[((i - 1) % 2) + 1])
KeyId(key) ==
    4 * (key[3] - 1) + (IF key[1] = 0 THEN 0 ELSE 2) + (IF key[4] = Modes[1] THEN 0 ELSE 1) + 1
IdleThread == [pc |-> "idle", key |-> 0, graph |-> None, ret |-> "none", out |-> None]
\* hist: the number of stores made (clock), the highest key stored
\* (fresh), the cache as the latest call found it (before), the key of the
\* latest hit on the entry then oldest (hit), and for each key the clock
\* and the graph of its latest store.
NoHist == [clock |-> 0, fresh |-> 0, before |-> <<>>, hit |-> 0,
           at |-> [i \in KeyIds |-> 0],
           graph |-> [i \in KeyIds |-> None]]

VARIABLES
    cached_graph,      \* the module's OrderedDict of graphs
    pc,                \* where the request under way stands
    candidates, user_lat, radius_m, n,   \* the arguments of find_top_candidates
    handed,            \* the list handed to get_top_n_by_route_distance_for_all_modes
    mi,                \* index in Modes of the pass of the loop under way
    graph,             \* the graph each pass got from get_network_graph
    got,               \* how each pass got it: "hit", "built", "failed", or "pending"
    valid_candidates,  \* each pass's valid_candidates after the sort
    all_results,       \* the dict the loop fills
    result,            \* what find_top_candidates returned or raised
    provider_calls,    \* calls of graph_from_point made for the request
    provider_args,     \* the arguments of the request's last graph_from_point call
    route_log,         \* calls of get_route_distance made for the request, per mode
    pool,              \* each mode's ThreadPoolExecutor and its tasks
    thr,               \* the threads calling get_network_graph side by side
    hist               \* what has happened to the cache: insertions, provider calls

vars == <<cached_graph, pc, candidates, user_lat, radius_m, n, handed, mi, graph, got,
          valid_candidates, all_results, result, provider_calls, provider_args, route_log,
          pool, thr, hist>>

TypeOK ==
    /\ pc \in {"idle", "mode", "rank", "pool", "done"}
    /\ mi \in 1..3
    /\ user_lat \in UserLats
    /\ radius_m \in Nat \ {0}
    /\ provider_args.network_type \in ModeSet \cup {"none"}
    /\ n \in 0..MaxN
    /\ provider_calls \in 0..2
    /\ result.kind \in {"none", "return", "raise"}
    /\ \A m \in ModeSet : got[m] \in {"pending", "hit", "built", "failed"}
    /\ \A m \in ModeSet : pool[m].state \in {"none", "open", "aborting", "shut"}
    /\ \A t \in Threads : thr[t].pc \in {"idle", "check", "read", "provider", "len", "pop", "store", "done"}
    /\ hist.clock \in 0..(MAX_CACHE_SIZE + MaxExtra + 2)

Fresh ==
    /\ handed = <<>>
    /\ mi = 1
    /\ graph = [m \in ModeSet |-> None]
    /\ got = [m \in ModeSet |-> "pending"]
    /\ valid_candidates = [m \in ModeSet |-> <<>>]
    /\ all_results = EmptyDict
    /\ result = NoResult
    /\ provider_calls = 0
    /\ provider_args = NoRequest
    /\ route_log = [m \in ModeSet |-> <<>>]

\* No executor made, no thread inside get_network_graph
Untouched ==
    /\ pool = [m \in ModeSet |-> NoPool]
    /\ thr = [t \in Threads |-> IdleThread]
    /\ hist = NoHist

Init ==
    /\ cached_graph = <<>>
    /\ pc = "idle"
    /\ candidates = <<>>
    /\ user_lat \in UserLats
    /\ radius_m \in 1..MaxRadius
    /\ n = 0
    /\ Fresh
    /\ Untouched

\* find_top_candidates with the prefilter beginning one candidate later
CallPrefilterLate(cands, count) ==
    /\ pc = "idle"
    /\ candidates' = cands
    /\ n' = count
    /\ IF cands = <<>>
       THEN /\ result' = Returned(EmptyDict)
            /\ handed' = <<>>
            /\ pc' = "done"
       ELSE /\ result' = NoResult
            /\ handed' = IF Len(cands) > PREFILTER_THRESHOLD + 1
                         THEN PrefilterCandidatesByDistance(cands, user_lat, 3 * radius_m)
                         ELSE cands
            /\ pc' = "mode"
    /\ UNCHANGED <<cached_graph, user_lat, radius_m, mi, graph, got, valid_candidates,
                   all_results, provider_calls, provider_args, route_log>>
    /\ UNCHANGED <<pool, thr, hist>>

\* find_top_candidates up to its first request for a graph: the early return
\* for no candidates, the prefilter for more than PREFILTER_THRESHOLD.
Call(cands, count) ==
    /\ pc = "idle"
    /\ candidates' = cands
    /\ n' = count
    /\ IF cands = <<>>
       THEN /\ result' = Returned(EmptyDict)
            /\ handed' = <<>>
            /\ pc' = "done"
       ELSE /\ result' = NoResult
            /\ handed' = IF Len(cands) > PREFILTER_THRESHOLD
                         THEN PrefilterCandidatesByDistance(cands, user_lat, 3 * radius_m)
                         ELSE cands
            /\ pc' = "mode"
    /\ UNCHANGED <<cached_graph, user_lat, radius_m, mi, graph, got, valid_candidates,
                   all_results, provider_calls, provider_args, route_log>>
    /\ UNCHANGED <<pool, thr, hist>>

CurrentKey == GraphKey(user_lat, UserLon, radius_m, Modes[mi])

\* get_network_graph, the key is cached
GetGraphHit ==
    /\ pc = "mode" /\ mi <= Len(Modes)
    /\ CurrentKey \in CacheKeys(cached_graph)
    /\ graph' = [graph EXCEPT ![Modes[mi]] = cached_graph[CacheLookup(cached_graph, CurrentKey)].graph]
    /\ got' = [got EXCEPT ![Modes[mi]] = "hit"]
    /\ pc' = "rank"
    /\ UNCHANGED <<cached_graph, candidates, user_lat, radius_m, n, handed, mi,
                   valid_candidates, all_results, result, provider_calls, provider_args, route_log>>
    /\ UNCHANGED <<pool, thr, hist>>

\* get_network_graph, the provider answers: largest component, cache, return
GetGraphBuild ==
    /\ pc = "mode" /\ mi <= Len(Modes)
    /\ CurrentKey \notin CacheKeys(cached_graph)
    /\ LET raw == GraphFromPoint(user_lat, GraphDist2(radius_m, Modes[mi]), Modes[mi])
       IN \E largest_component \in LargestComponents(raw) :
            LET g == Subgraph(raw, largest_component)
            IN /\ cached_graph' = CacheGraph(cached_graph, CurrentKey, g)
               /\ graph' = [graph EXCEPT ![Modes[mi]] = g]
    /\ got' = [got EXCEPT ![Modes[mi]] = "built"]
    /\ provider_calls' = provider_calls + 1
    /\ provider_args' = ProviderRequest(radius_m, Modes[mi])
    /\ pc' = "rank"
    /\ UNCHANGED <<candidates, user_lat, radius_m, n, handed, mi, valid_candidates,
                   all_results, result, route_log>>
    /\ UNCHANGED <<pool, thr, hist>>

\* get_network_graph storing the None of a failed build under the key
GetGraphFailCached ==
    /\ pc = "mode" /\ mi <= Len(Modes)
    /\ CurrentKey \notin CacheKeys(cached_graph)
    /\ cached_graph' = CacheGraph(cached_graph, CurrentKey, None)
    /\ provider_calls' = provider_calls + 1
    /\ provider_args' = ProviderRequest(radius_m, Modes[mi])
    /\ got' = [got EXCEPT ![Modes[mi]] = "failed"]
    /\ mi' = mi + 1
    /\ UNCHANGED <<pc, candidates, user_lat, radius_m, n, handed, graph,
                   valid_candidates, all_results, result, route_log>>
    /\ UNCHANGED <<pool, thr, hist>>

\* get_network_graph, the provider raises: None, and the loop skips the mode
GetGraphFail ==
    /\ pc = "mode" /\ mi <= Len(Modes)
    /\ CurrentKey \notin CacheKeys(cached_graph)
    /\ provider_calls' = provider_calls + 1
    /\ provider_args' = ProviderRequest(radius_m, Modes[mi])
    /\ got' = [got EXCEPT ![Modes[mi]] = "failed"]
    /\ mi' = mi + 1
    /\ UNCHANGED <<cached_graph, pc, candidates, user_lat, radius_m, n, handed, graph,
                   valid_candidates, all_results, result, route_log>>
    /\ UNCHANGED <<pool, thr, hist>>

\* process_candidate writing the distance field into the caller's record
Attached(g, u_lat, poi, travel_mode, radius) ==
    LET r == ProcessCandidate(g, u_lat, poi, travel_mode, radius)
    IN IF r.tag = "poi" THEN r.poi ELSE poi

\* the pass of a mode with no copy made of a candidate
RankModeInPlace ==
    /\ pc = "rank"
    /\ LET mode == Modes[mi]
           r == RankForMode(graph[mode], handed, user_lat, mode, radius_m, n)
       IN /\ IF r.tag = "raise"
             THEN /\ result' = RaisedResult
                  /\ pc' = "done"
                  /\ UNCHANGED <<all_results, mi, valid_candidates>>
             ELSE /\ all_results' = DictPut(all_results, mode, r.list)
                  /\ valid_candidates' =
                        [valid_candidates EXCEPT
                           ![mode] = SortedValid(graph[mode], handed, user_lat, mode, radius_m)]
                  /\ mi' = mi + 1
                  /\ pc' = "mode"
                  /\ UNCHANGED result
          /\ route_log' = IF handed = <<>> THEN route_log
                          ELSE [route_log EXCEPT ![mode] = DistancesFor(graph[mode], handed, user_lat)]
    /\ candidates' = [i \in 1..Len(candidates) |->
                         Attached(graph[Modes[mi]], user_lat, candidates[i], Modes[mi], radius_m)]
    /\ handed' = [i \in 1..Len(handed) |->
                     Attached(graph[Modes[mi]], user_lat, handed[i], Modes[mi], radius_m)]
    /\ UNCHANGED <<cached_graph, user_lat, radius_m, n, graph, got,
                   provider_calls, provider_args>>
    /\ UNCHANGED <<pool, thr, hist>>

\* The pool, the sort and the truncation for the mode under way
RankMode ==
    /\ pc = "rank"
    /\ LET mode == Modes[mi]
           r == RankForMode(graph[mode], handed, user_lat, mode, radius_m, n)
       IN /\ IF r.tag = "raise"
             THEN /\ result' = RaisedResult
                  /\ pc' = "done"
                  /\ UNCHANGED <<all_results, mi, valid_candidates>>
             ELSE /\ all_results' = DictPut(all_results, mode, r.list)
                  /\ valid_candidates' =
                        [valid_candidates EXCEPT
                           ![mode] = SortedValid(graph[mode], handed, user_lat, mode, radius_m)]
                  /\ mi' = mi + 1
                  /\ pc' = "mode"
                  /\ UNCHANGED result
          /\ route_log' = IF handed = <<>> THEN route_log
                          ELSE [route_log EXCEPT ![mode] = DistancesFor(graph[mode], handed, user_lat)]
    /\ UNCHANGED <<cached_graph, candidates, user_lat, radius_m, n, handed, graph, got,
                   provider_calls, provider_args>>
    /\ UNCHANGED <<pool, thr, hist>>

\* The return of find_top_candidates once both modes are through
Return ==
    /\ pc = "mode" /\ mi > Len(Modes)
    /\ result' = IF Len(candidates) > PREFILTER_THRESHOLD
                 THEN Returned(all_results)
                 ELSE ValidateTopCandidates(all_results)
    /\ pc' = "done"
    /\ UNCHANGED <<cached_graph, candidates, user_lat, radius_m, n, handed, mi,
                   graph, got, valid_candidates, all_results, provider_calls, provider_args, route_log>>
    /\ UNCHANGED <<pool, thr, hist>>

\* The caller has taken the mapping (or the exception); the engine keeps
\* nothing of the request but the graph cache.
Consume ==
    /\ pc = "done"
    /\ pc' = "idle"
    /\ candidates' = <<>>
    /\ n' = 0
    /\ handed' = <<>>
    /\ mi' = 1
    /\ graph' = [m \in ModeSet |-> None]
    /\ got' = [m \in ModeSet |-> "pending"]
    /\ valid_candidates' = [m \in ModeSet |-> <<>>]
    /\ all_results' = EmptyDict
    /\ result' = NoResult
    /\ provider_calls' = 0
    /\ provider_args' = NoRequest
    /\ route_log' = [m \in ModeSet |-> <<>>]
    /\ UNCHANGED <<cached_graph, user_lat, radius_m>>
    /\ UNCHANGED <<pool, thr, hist>>

Next ==
    \/ \E cands \in CandidateLists, count \in 0..MaxN : Call(cands, count)
    \/ GetGraphHit
    \/ GetGraphBuild
    \/ GetGraphFail
    \/ RankMode
    \/ Return
    \/ Consume

Spec == Init /\ [][Next]_vars

\* ------------------------------------------- requests with a large radius
\* The radii at which the caps of graph_dist begin to hold: radius_m * 1.5
\* passes WALK_DIST_CAP between 1333 and 1334, radius_m * 2 passes
\* DRIVE_DIST_CAP between 2500 and 2501.
CapRadii ==
    LET walk_turn == (2 * WALK_DIST_CAP) \div 3
        drive_turn == DRIVE_DIST_CAP \div 2
    IN (1..MaxRadius)
       \cup ((walk_turn - MaxRadius)..(walk_turn + MaxRadius))
       \cup ((drive_turn - MaxRadius)..(drive_turn + MaxRadius))
       \cup {DRIVE_DIST_CAP}

DistInit ==
    /\ cached_graph = <<>>
    /\ pc = "idle"
    /\ candidates = <<>>
    /\ user_lat \in UserLats
    /\ radius_m \in CapRadii
    /\ n = 0
    /\ Fresh
    /\ Untouched

\* Calls with at most one candidate
DistNext ==
    \/ \E cands \in SeqsUpTo(CandidatePool, 1), count \in {1} : Call(cands, count)
    \/ GetGraphHit
    \/ GetGraphBuild
    \/ GetGraphFail
    \/ RankMode
    \/ Return
    \/ Consume

DistSpec == DistInit /\ [][DistNext]_vars

\* ------------------------------------------------- the class TopCandidatesFinder
\* TopCandidatesFinder.calculate_distance on one meridian; NaN in, NaN out.
CalculateDistance(lat1, lat2) ==
    IF lat1 = NaN \/ lat2 = NaN THEN NaN ELSE Abs(lat2 - lat1)

\* The < of two floats: false when either is NaN.
KeyLess(a, b) == a # NaN /\ b # NaN /\ a < b

\* sorted(candidates, key=...) as CPython sorts a short list: the run the list
\* begins with (reversed when strictly descending), then binary insertion of
\* the remaining elements.
RECURSIVE RunEnd(_, _, _, _)
RunEnd(s, key, k, descending) ==
    IF k < Len(s) /\ (KeyLess(Get(s[k + 1], key), Get(s[k], key)) = descending)
    THEN RunEnd(s, key, k + 1, descending)
    ELSE k

CountRun(s, key) ==
    IF Len(s) <= 1 THEN [n |-> Len(s), descending |-> FALSE]
    ELSE LET descending == KeyLess(Get(s[2], key), Get(s[1], key))
         IN [n |-> RunEnd(s, key, 2, descending), descending |-> descending]

Reverse(s) == [i \in 1..Len(s) |-> s[Len(s) + 1 - i]]

RECURSIVE Bisect(_, _, _, _, _)
Bisect(sorted, key, pivot, l, r) ==
    IF l >= r THEN l
    ELSE LET p == l + ((r - l) \div 2)
         IN IF KeyLess(Get(pivot, key), Get(sorted[p + 1], key))
            THEN Bisect(sorted, key, pivot, l, p)
            ELSE Bisect(sorted, key, pivot, p + 1, r)

RECURSIVE BinarySort(_, _, _, _)
BinarySort(sorted, s, key, i) ==
    IF i > Len(s) THEN sorted
    ELSE LET l == Bisect(sorted, key, s[i], 0, Len(sorted))
         IN BinarySort(SubSeq(sorted, 1, l) \o <<s[i]>> \o SubSeq(sorted, l + 1, Len(sorted)),
                       s, key, i + 1)

Sorted(s, key) ==
    LET run == CountRun(s, key)
        head == SubSeq(s, 1, run.n)
    IN BinarySort(IF run.descending THEN Reverse(head) ELSE head, s, key, run.n + 1)

\* The first candidate the loop of find_top_candidates raises KeyError on, 0
\* when there is none.
FirstKeyError(cands) ==
    LET bad == {i \in 1..Len(cands) : ~Has(cands[i], "latitude") \/ ~Has(cands[i], "longitude")}
    IN IF bad = {} THEN 0 ELSE CHOOSE i \in bad : \A j \in bad : i <= j

\* The caller's records after the loop: 'distance_m' written into each
\* record the loop got to.
WithDistance(cands, u_lat) ==
    LET stop == FirstKeyError(cands)
    IN [i \in 1..Len(cands) |->
          IF stop = 0 \/ i < stop
          THEN DictSet(cands[i], "distance_m", CalculateDistance(u_lat, Get(cands[i], "latitude")))
          ELSE cands[i]]

\* TopCandidatesFinder.find_top_candidates
FinderFindTopCandidates(cands, u_lat, count) ==
    IF cands = <<>> THEN Returned([keys |-> ModeSet, val |-> [m \in ModeSet |-> <<>>]])
    ELSE IF FirstKeyError(cands) # 0 THEN RaisedResult
    ELSE LET sorted_candidates == Sorted(WithDistance(cands, u_lat), "distance_m")
             top_candidates == SlicePrefix(sorted_candidates, count)
         IN Returned([keys |-> ModeSet, val |-> [m \in ModeSet |-> top_candidates]])

\* The lists handed to the finder
FinderLists == SeqsUpTo(CandidatePool, MaxCore + 1)

\* A call of create_top_candidates_finder().find_top_candidates; candidates
\* is the caller's list, whose records the method writes into.
FinderCall(cands, count) ==
    /\ pc = "idle"
    /\ n' = count
    /\ candidates' = WithDistance(cands, user_lat)
    /\ result' = FinderFindTopCandidates(cands, user_lat, count)
    /\ pc' = "done"
    /\ UNCHANGED <<cached_graph, user_lat, radius_m, handed, mi, graph, got, valid_candidates,
                   all_results, provider_calls, provider_args, route_log>>
    /\ UNCHANGED <<pool, thr, hist>>

FinderNext ==
    \/ \E cands \in FinderLists, count \in 0..MaxN : FinderCall(cands, count)
    \/ Consume

FinderSpec == Init /\ [][FinderNext]_vars

\* ------------------------------------------- get_network_graph, threaded
\* The same function entered by several threads (requests served side by
\* side), one step per access to the shared OrderedDict: the module takes
\* no lock, so the steps of two calls interleave freely.
reqvars == <<pc, candidates, user_lat, radius_m, n, handed, mi, graph, got,
             valid_candidates, all_results, result, provider_calls, provider_args, route_log>>

CachedIds == {KeyId(cached_graph[i].key) : i \in 1..Len(cached_graph)}

\* The graphs the try block can end with for a key
Builds(key) ==
    LET raw == GraphFromPoint(key[1], GraphDist2(key[3], key[4]), key[4])
    IN {Subgraph(raw, largest_component) : largest_component \in LargestComponents(raw)}

\* The keys followed: the keys other calls under way are asking for, the
\* lowest key neither stored so far nor asked for, the oldest entry of the
\* cache, and the first key stored earlier and cached no more.
Requestable ==
    LET asked == {thr[t].key : t \in Threads} \ {0}
        unused == {i \in KeyIds : i > hist.fresh /\ i \notin asked}
        evicted == {i \in 1..hist.fresh : hist.at[i] > 0} \ CachedIds
    IN asked
       \cup (IF unused = {} THEN {} ELSE {CHOOSE i \in unused : \A j \in unused : i <= j})
       \cup (IF cached_graph = <<>> THEN {}
             ELSE {KeyId(cached_graph[1].key)})
       \cup (IF evicted = {} THEN {}
             ELSE {CHOOSE i \in evicted : \A j \in evicted : i <= j})

\* a caller enters get_network_graph(user_lat, user_lon, radius_m, travel_mode);
\* calls are followed side by side once the cache is one entry short of its
\* capacity, one after the other while it fills
TCall(t, k) ==
    /\ thr[t].pc = "idle"
    /\ \/ \A u \in Threads \ {t} : thr[u].pc = "idle"
       \/ Len(cached_graph) >= MAX_CACHE_SIZE - 1
    /\ hist.clock < MAX_CACHE_SIZE + MaxExtra
    /\ k \in Requestable
    /\ thr' = [thr EXCEPT ![t] = [IdleThread EXCEPT !.pc = "check", !.key = k]]
    /\ hist' = [hist EXCEPT !.before = cached_graph]
    /\ UNCHANGED <<cached_graph, reqvars, pool>>

\* the same, while no other call is under way
TCallAlone(t, k) ==
    /\ \A u \in Threads \ {t} : thr[u].pc = "idle"
    /\ TCall(t, k)

\* if graph_key in cached_graph
TCheck(t) ==
    /\ thr[t].pc = "check"
    /\ thr' = [thr EXCEPT ![t].pc = IF KeyOf(thr[t].key) \in CacheKeys(cached_graph)
                                     THEN "read" ELSE "provider"]
    /\ UNCHANGED <<cached_graph, hist, reqvars, pool>>

\* a read that, once the cache is full, moves the entry to the end of the
\* OrderedDict, as a cache ordered by recency of use would
TReadRefresh(t) ==
    /\ thr[t].pc = "read"
    /\ LET key == KeyOf(thr[t].key)
       IN IF key \in CacheKeys(cached_graph)
          THEN LET entry == cached_graph[CacheLookup(cached_graph, key)]
               IN /\ thr' = [thr EXCEPT ![t].pc = "done", ![t].ret = "hit", ![t].out = entry.graph]
                  /\ cached_graph' = IF Len(cached_graph) >= MAX_CACHE_SIZE
                                      THEN Append(SelectSeq(cached_graph, LAMBDA e : e.key # key), entry)
                                      ELSE cached_graph
                  /\ hist' = IF cached_graph[1].key = key
                              THEN [hist EXCEPT !.hit = thr[t].key] ELSE hist
          ELSE /\ thr' = [thr EXCEPT ![t].pc = "done", ![t].ret = "raise"]
               /\ UNCHANGED <<cached_graph, hist>>
    /\ UNCHANGED <<reqvars, pool>>

\* return cached_graph[graph_key]; outside the try, a KeyError leaves the function
TRead(t) ==
    /\ thr[t].pc = "read"
    /\ LET key == KeyOf(thr[t].key)
       IN IF key \in CacheKeys(cached_graph)
          THEN /\ thr' = [thr EXCEPT ![t].pc = "done", ![t].ret = "hit",
                                     ![t].out = cached_graph[CacheLookup(cached_graph, key)].graph]
               /\ hist' = IF cached_graph[1].key = key
                           THEN [hist EXCEPT !.hit = thr[t].key] ELSE hist
          ELSE /\ thr' = [thr EXCEPT ![t].pc = "done", ![t].ret = "raise"]
               /\ UNCHANGED hist
    /\ UNCHANGED <<cached_graph, reqvars, pool>>

\* graph_from_point and the largest component
TProviderOK(t) ==
    /\ thr[t].pc = "provider"
    /\ \E g \in Builds(KeyOf(thr[t].key)) :
          thr' = [thr EXCEPT ![t].pc = "len", ![t].graph = g]
    /\ UNCHANGED <<cached_graph, hist, reqvars, pool>>

\* the try block raises: print, return None
TProviderFail(t) ==
    /\ thr[t].pc = "provider"
    /\ thr' = [thr EXCEPT ![t].pc = "done", ![t].ret = "failed"]
    /\ UNCHANGED <<cached_graph, hist, reqvars, pool>>

\* a size test that evicts one entry early
TLenEarly(t) ==
    /\ thr[t].pc = "len"
    /\ thr' = [thr EXCEPT ![t].pc = IF Len(cached_graph) >= MAX_CACHE_SIZE - 1 THEN "pop" ELSE "store"]
    /\ UNCHANGED <<cached_graph, hist, reqvars, pool>>

\* cache_graph: if len(cached_graph) >= MAX_CACHE_SIZE
TLen(t) ==
    /\ thr[t].pc = "len"
    /\ thr' = [thr EXCEPT ![t].pc = IF Len(cached_graph) >= MAX_CACHE_SIZE THEN "pop" ELSE "store"]
    /\ UNCHANGED <<cached_graph, hist, reqvars, pool>>

\* cache_graph: cached_graph.popitem(last=False); its KeyError on an empty
\* dict is caught by the except of get_network_graph
TPop(t) ==
    /\ thr[t].pc = "pop"
    /\ IF cached_graph = <<>>
       THEN /\ thr' = [thr EXCEPT ![t].pc = "done", ![t].ret = "failed"]
            /\ UNCHANGED cached_graph
       ELSE /\ cached_graph' = Tail(cached_graph)
            /\ thr' = [thr EXCEPT ![t].pc = "store"]
    /\ UNCHANGED <<hist, reqvars, pool>>

\* cache_graph: cached_graph[graph_key] = graph; return graph
TStore(t) ==
    /\ thr[t].pc = "store"
    /\ cached_graph' = DictStore(cached_graph, KeyOf(thr[t].key), thr[t].graph)
    /\ thr' = [thr EXCEPT ![t].pc = "done", ![t].ret = "built", ![t].out = thr[t].graph]
    /\ hist' = [hist EXCEPT !.clock = @ + 1,
                            !.fresh = IF thr[t].key > @ THEN thr[t].key ELSE @,
                            !.at[thr[t].key] = hist.clock + 1,
                            !.graph[thr[t].key] = thr[t].graph]
    /\ UNCHANGED <<reqvars, pool>>

\* the caller has the graph, the None or the exception
TReturn(t) ==
    /\ thr[t].pc = "done"
    /\ thr' = [thr EXCEPT ![t] = IdleThread]
    /\ UNCHANGED <<cached_graph, hist, reqvars, pool>>

CacheInit ==
    /\ cached_graph = <<>>
    /\ pc = "idle"
    /\ candidates = <<>>
    /\ user_lat = 0
    /\ radius_m = 1
    /\ n = 0
    /\ Fresh
    /\ Untouched

\* Calls one after the other
SeqNext ==
    \/ \E t \in Threads : \E k \in Requestable : TCallAlone(t, k)
    \/ \E t \in Threads : TCheck(t)
    \/ \E t \in Threads : TRead(t)
    \/ \E t \in Threads : TProviderOK(t)
    \/ \E t \in Threads : TProviderFail(t)
    \/ \E t \in Threads : TLen(t)
    \/ \E t \in Threads : TPop(t)
    \/ \E t \in Threads : TStore(t)
    \/ \E t \in Threads : TReturn(t)

SeqSpec == CacheInit /\ [][SeqNext]_vars

\* Calls side by side
CacheNext ==
    \/ \E t \in Threads : \E k \in Requestable : TCall(t, k)
    \/ \E t \in Threads : TCheck(t)
    \/ \E t \in Threads : TRead(t)
    \/ \E t \in Threads : TProviderOK(t)
    \/ \E t \in Threads : TProviderFail(t)
    \/ \E t \in Threads : TLen(t)
    \/ \E t \in Threads : TPop(t)
    \/ \E t \in Threads : TStore(t)
    \/ \E t \in Threads : TReturn(t)

CacheSpec == CacheInit /\ [][CacheNext]_vars

\* --------------------------------------------- the worker pool, threaded
\* One request with the pool of each mode followed task by task: the
\* executor starts the tasks in input order on at most max_workers threads,
\* the tasks finish in any order, and the caller takes the results from
\* executor.map.  For a list longer than MaxPool the tasks are followed
\* finishing in the order they started.
PoolCandidates ==
    {MkPOI(RequiredKeys, 1), MkPOI(RequiredKeys, MaxLat), MkPOI({"latitude", "longitude"}, 1)}
LongList == Repeat(Filler, MAX_WORKERS + 1)
PoolLists == SeqsUpTo(PoolCandidates, MaxPool) \cup {LongList}
PoolNs == {1, MaxN}

\* The cache after an earlier request of the same place and radius
WarmCaches(u_lat, radius) ==
    LET drive_key == GraphKey(u_lat, UserLon, radius, "drive")
        walk_key == GraphKey(u_lat, UserLon, radius, "walk")
    IN {CacheGraph(CacheGraph(<<>>, drive_key, drive_graph), walk_key, walk_graph) :
           drive_graph \in Builds(drive_key), walk_graph \in Builds(walk_key)}

PoolInit ==
    /\ pc = "idle"
    /\ candidates = <<>>
    /\ user_lat = 0
    /\ radius_m \in 1..MaxRadius
    /\ cached_graph \in {<<>>} \cup WarmCaches(0, radius_m)
    /\ n = 0
    /\ Fresh
    /\ Untouched

CurrentMode == Modes[mi]
\* what process_candidate returns, or raises, for the i-th candidate
TaskResult(i) == ProcessCandidate(graph[CurrentMode], user_lat, handed[i], CurrentMode, radius_m)
Finished(m) == {pool[m].completed[j] : j \in 1..Len(pool[m].completed)}
\* executor.map hands the results over in input order, so the caller meets
\* an exception once the raising task and all tasks before it have finished
RaiseSeen ==
    \E i \in 1..pool[CurrentMode].submitted :
        TaskResult(i).tag = "raise" /\ (1..i) \subseteq Finished(CurrentMode)

\* results taken in the order the tasks completed, as as_completed would
AsCompletedOrder(completed) == completed

\* executor.map: the order in which the results reach the caller, whatever
\* the order of completion
YieldOrder(completed) == [j \in 1..Len(completed) |-> j]

\* with ThreadPoolExecutor(max_workers=min(32, len(candidates))) as executor,
\* executor.map(process_candidate, args_list): one task per candidate
PoolOpen ==
    /\ pc = "rank"
    /\ pool[CurrentMode].state = "none"
    /\ LET max_workers == Min(MAX_WORKERS, Len(handed))
       IN IF max_workers <= 0
          THEN /\ result' = RaisedResult
               /\ pc' = "done"
               /\ UNCHANGED pool
          ELSE /\ pool' = [pool EXCEPT ![CurrentMode] =
                              [NoPool EXCEPT !.state = "open", !.max_workers = max_workers,
                                             !.submitted = Len(handed)]]
               /\ pc' = "pool"
               /\ UNCHANGED result
    /\ UNCHANGED <<cached_graph, candidates, user_lat, radius_m, n, handed, mi, graph, got,
                   valid_candidates, all_results, provider_calls, provider_args, route_log, thr, hist>>

\* an executor that starts a thread for every task
WorkerTakeUnbounded ==
    /\ pc = "pool"
    /\ pool[CurrentMode].state = "open"
    /\ pool[CurrentMode].started < pool[CurrentMode].submitted
    /\ pool' = [pool EXCEPT ![CurrentMode].started = @ + 1,
                            ![CurrentMode].running = @ \cup {pool[CurrentMode].started + 1}]
    /\ UNCHANGED <<cached_graph, reqvars, thr, hist>>

\* a worker thread takes the next task of the queue
WorkerTake ==
    /\ pc = "pool"
    /\ pool[CurrentMode].state = "open"
    /\ pool[CurrentMode].started < pool[CurrentMode].submitted
    /\ Cardinality(pool[CurrentMode].running) < pool[CurrentMode].max_workers
    /\ pool' = [pool EXCEPT ![CurrentMode].started = @ + 1,
                            ![CurrentMode].running = @ \cup {pool[CurrentMode].started + 1}]
    /\ UNCHANGED <<cached_graph, reqvars, thr, hist>>

\* process_candidate of task i returns or raises
WorkerFinish(i) ==
    /\ pc = "pool"
    /\ i \in pool[CurrentMode].running
    /\ pool[CurrentMode].submitted > MaxPool
          => \A j \in pool[CurrentMode].running : i <= j
    /\ pool' = [pool EXCEPT ![CurrentMode].running = @ \ {i},
                            ![CurrentMode].completed = Append(@, i)]
    /\ UNCHANGED <<cached_graph, reqvars, thr, hist>>

\* a task's exception leaves executor.map: the tasks not started are
\* cancelled, the with block waits for those running
PoolAbort ==
    /\ pc = "pool"
    /\ pool[CurrentMode].state = "open"
    /\ RaiseSeen
    /\ pool' = [pool EXCEPT ![CurrentMode].state = "aborting"]
    /\ UNCHANGED <<cached_graph, reqvars, thr, hist>>

\* shutdown(wait=True) is through and the exception leaves find_top_candidates
PoolRaise ==
    /\ pc = "pool"
    /\ pool[CurrentMode].state = "aborting"
    /\ pool[CurrentMode].running = {}
    /\ pool' = [pool EXCEPT ![CurrentMode].state = "shut"]
    /\ result' = RaisedResult
    /\ pc' = "done"
    /\ UNCHANGED <<cached_graph, candidates, user_lat, radius_m, n, handed, mi, graph, got,
                   valid_candidates, all_results, provider_calls, provider_args, route_log, thr, hist>>

\* a with block left while tasks are still running
PoolCloseEarly ==
    /\ pc = "pool"
    /\ pool[CurrentMode].state = "open"
    /\ pool[CurrentMode].started = pool[CurrentMode].submitted
    /\ pool' = [pool EXCEPT ![CurrentMode].state = "shut"]
    /\ all_results' = DictPut(all_results, CurrentMode, <<>>)
    /\ mi' = mi + 1
    /\ pc' = "mode"
    /\ UNCHANGED <<cached_graph, candidates, user_lat, radius_m, n, handed, graph, got,
                   valid_candidates, result, provider_calls, provider_args, route_log, thr, hist>>

\* every result has reached the caller: the pool shuts down, the survivors
\* are sorted, truncated and stored under the mode
PoolClose ==
    /\ pc = "pool"
    /\ pool[CurrentMode].state = "open"
    /\ Len(pool[CurrentMode].completed) = pool[CurrentMode].submitted
    /\ ~RaiseSeen
    /\ LET order == YieldOrder(pool[CurrentMode].completed)
           results == [j \in 1..Len(order) |-> TaskResult(order[j])]
           kept == SelectSeq(results, LAMBDA r : r.tag = "poi")
           sorted == SortByKey([j \in 1..Len(kept) |-> kept[j].poi], DistKey(CurrentMode))
       IN /\ valid_candidates' = [valid_candidates EXCEPT ![CurrentMode] = sorted]
          /\ all_results' = DictPut(all_results, CurrentMode, SlicePrefix(sorted, n))
    /\ pool' = [pool EXCEPT ![CurrentMode].state = "shut"]
    /\ mi' = mi + 1
    /\ pc' = "mode"
    /\ UNCHANGED <<cached_graph, candidates, user_lat, radius_m, n, handed, graph, got,
                   result, provider_calls, provider_args, route_log, thr, hist>>

PoolNext ==
    \/ \E cands \in PoolLists, count \in PoolNs : Call(cands, count)
    \/ GetGraphHit
    \/ GetGraphBuild
    \/ GetGraphFail
    \/ PoolOpen
    \/ WorkerTake
    \/ \E i \in 1..(MAX_WORKERS + 1) : WorkerFinish(i)
    \/ PoolAbort
    \/ PoolRaise
    \/ PoolClose
    \/ Return

PoolSpec == PoolInit /\ [][PoolNext]_vars

\* The same with the threads scheduled fairly and every call returning:
\* the provider answers or fails, a free worker takes the next task, a
\* running task ends, the calling thread goes on when it can.
FairPoolSpec ==
    /\ PoolInit /\ [][PoolNext]_vars
    /\ WF_vars(GetGraphHit \/ GetGraphBuild \/ GetGraphFail)
    /\ WF_vars(WorkerTake)
    /\ WF_vars(\E i \in 1..(MAX_WORKERS + 1) : WorkerFinish(i))
    /\ WF_vars(PoolOpen \/ PoolAbort \/ PoolRaise \/ PoolClose \/ Return)

\* ------------------------------------------------------------ properties
ReturnedOK == pc = "done" /\ result.kind = "return"
ReturnedKeys == result.value.keys
ReturnedList(m) == result.value.val[m]
Available(m) == got[m] \in {"hit", "built"}
HasCoords(poi) == Has(poi, "latitude") /\ Has(poi, "longitude")
RouteOf(poi, m) == GetRouteDistance(graph[m], user_lat, Get(poi, "latitude"))
Logged(m) == {route_log[m][i].d : i \in 1..Len(route_log[m])}

\* C1: every record of a returned mode list carries that mode's distance
\* field, and its value is finite and at most radius_m.
C1_DistanceWithinRadius ==
    ReturnedOK =>
        \A m \in ReturnedKeys : \A i \in 1..Len(ReturnedList(m)) :
            /\ Has(ReturnedList(m)[i], DistKey(m))
            /\ Get(ReturnedList(m)[i], DistKey(m)) >= 0
            /\ Get(ReturnedList(m)[i], DistKey(m)) < Inf
            /\ Get(ReturnedList(m)[i], DistKey(m)) <= radius_m

\* A call returned a record at distance radius_m, after computing for some
\* candidate a finite distance above radius_m and for some an infinite one.
C1_Witness ==
    /\ ReturnedOK
    /\ \E m \in ReturnedKeys : \E i \in 1..Len(ReturnedList(m)) :
          Get(ReturnedList(m)[i], DistKey(m)) = radius_m
    /\ \E m \in ModeSet : \E d \in Logged(m) : d > radius_m /\ d < Inf
    /\ \E m \in ModeSet : Inf \in Logged(m)

\* C2: every returned mode list is sorted non-decreasing by that mode's
\* distance field.
C2_SortedByDistance ==
    ReturnedOK =>
        \A m \in ReturnedKeys : \A i \in 1..(Len(ReturnedList(m)) - 1) :
            Get(ReturnedList(m)[i], DistKey(m)) <= Get(ReturnedList(m)[i + 1], DistKey(m))

\* A returned list of two records at different distances whose nearer record
\* came second in the input.
C2_Witness ==
    /\ ReturnedOK
    /\ \E m \in ReturnedKeys :
          /\ Len(ReturnedList(m)) >= 2
          /\ Len(handed) >= 2
          /\ Get(ReturnedList(m)[1], DistKey(m)) < Get(ReturnedList(m)[2], DistKey(m))
          /\ ReturnedList(m)[1] = DictSet(handed[2], DistKey(m), Get(ReturnedList(m)[1], DistKey(m)))
          /\ ReturnedList(m)[2] = DictSet(handed[1], DistKey(m), Get(ReturnedList(m)[2], DistKey(m)))

\* C3: every returned mode list has at most n records, and is the first n
\* entries of that mode's sorted survivors.
C3_AtMostN ==
    ReturnedOK =>
        \A m \in ReturnedKeys :
            /\ Len(ReturnedList(m)) <= n
            /\ ReturnedList(m) =
                 SubSeq(valid_candidates[m], 1, Min(n, Len(valid_candidates[m])))

\* A call with n >= 1 returned a list that the truncation shortened.
C3_Witness ==
    /\ ReturnedOK
    /\ n >= 1
    /\ \E m \in ReturnedKeys :
          Len(valid_candidates[m]) > n /\ Len(ReturnedList(m)) = n

\* The survivors of a mode among the candidates handed to the processor, in
\* input order, each with its distance attached.
IsSurvivor(poi, m) == HasCoords(poi) /\ RouteOf(poi, m) < Inf /\ RouteOf(poi, m) <= radius_m
Survivors(m) ==
    LET in == SelectSeq(handed, LAMBDA poi : IsSurvivor(poi, m))
    IN [i \in 1..Len(in) |-> DictSet(in[i], DistKey(m), RouteOf(in[i], m))]
Count(s, x) == Cardinality({i \in 1..Len(s) : s[i] = x})

\* C4: for a mode whose graph is available the returned list holds the n
\* closest survivors: its records are survivors (a candidate survives
\* exactly when its route distance is finite and <= radius_m), it has
\* min(n, number of survivors) records, and every survivor left out is at
\* least as far as every returned record.
C4_NClosestSurvivors ==
    ReturnedOK =>
        \A m \in ReturnedKeys : Available(m) =>
            LET S == Survivors(m)
                L == ReturnedList(m)
            IN /\ \A j \in 1..Len(L) : Count(L, L[j]) <= Count(S, L[j])
               /\ Len(L) = Min(n, Len(S))
               /\ \A i \in 1..Len(S) : \A j \in 1..Len(L) :
                     Count(L, S[i]) < Count(S, S[i])
                        => Get(S[i], DistKey(m)) >= Get(L[j], DistKey(m))

\* A call returned, for an available mode, fewer records than there were
\* survivors: a survivor at distance radius_m was left out for a nearer one.
C4_Witness ==
    /\ ReturnedOK
    /\ \E m \in ReturnedKeys :
          /\ Available(m)
          /\ Len(ReturnedList(m)) >= 1
          /\ Len(Survivors(m)) > Len(ReturnedList(m))
          /\ \E i \in 1..Len(Survivors(m)) :
                /\ Get(Survivors(m)[i], DistKey(m)) = radius_m
                /\ Count(ReturnedList(m), Survivors(m)[i]) = 0
          /\ \A j \in 1..Len(ReturnedList(m)) : Get(ReturnedList(m)[j], DistKey(m)) < radius_m

OtherMode(m) == IF m = "drive" THEN "walk" ELSE "drive"

\* C5: the mapping returned for a non-empty candidate list has both mode
\* keys, 'drive' and 'walk', whatever the number of candidates and whatever
\* graphs could be built.
C5_BothModeKeys ==
    (ReturnedOK /\ candidates # <<>>) => ReturnedKeys = ModeSet

\* C6: for an empty candidate list the call returns a mapping with both mode
\* keys, each an empty list, having requested no graph and computed no
\* distance.
C6_EmptyInputBothKeys ==
    (pc = "done" /\ candidates = <<>>) =>
        /\ result.kind = "return"
        /\ ReturnedKeys = ModeSet
        /\ \A m \in ModeSet : ReturnedList(m) = <<>>
        /\ provider_calls = 0
        /\ \A m \in ModeSet : route_log[m] = <<>> /\ got[m] = "pending"

\* C7: when the provider fails for one mode and a graph is there for the
\* other, the call returns; the failed mode maps to an empty list and the
\* other mode's list is the list ranked on its own graph.
C7_OneModeFails ==
    \A f \in ModeSet :
        (pc = "done" /\ candidates # <<>> /\ got[f] = "failed" /\ Available(OtherMode(f))) =>
            /\ result.kind = "return"
            /\ f \in ReturnedKeys
            /\ ReturnedList(f) = <<>>
            /\ OtherMode(f) \in ReturnedKeys
            /\ ReturnedList(OtherMode(f)) =
                 RankForMode(graph[OtherMode(f)], handed, user_lat, OtherMode(f), radius_m, n).list

LacksSubcategory(poi) == HasCoords(poi) /\ ~Has(poi, "subcategory")
WithoutInvalid(s) == SelectSeq(s, LAMBDA poi : ~LacksSubcategory(poi))

\* C8: when one candidate has latitude and longitude but no subcategory and
\* the others are valid, the call returns; that candidate is in no list and
\* each list is the ranking of the other candidates.
C8_MissingSubcategorySkipped ==
    (/\ pc = "done"
     /\ Cardinality({i \in 1..Len(candidates) : LacksSubcategory(candidates[i])}) = 1
     /\ \A i \in 1..Len(candidates) :
           LacksSubcategory(candidates[i]) \/ RequiredKeys \subseteq candidates[i].keys) =>
        /\ result.kind = "return"
        /\ \A m \in ReturnedKeys :
              /\ \A i \in 1..Len(ReturnedList(m)) : Has(ReturnedList(m)[i], "subcategory")
              /\ Available(m) =>
                    ReturnedList(m) =
                      RankForMode(graph[m], WithoutInvalid(handed), user_lat, m, radius_m, n).list

\* C9: every returned record has the keys latitude, longitude and
\* subcategory, each with the value an input candidate that has all three
\* gave it: no record missing one is emitted and no field is filled in.
C9_RequiredKeysPresent ==
    ReturnedOK =>
        \A m \in ReturnedKeys : \A i \in 1..Len(ReturnedList(m)) :
            /\ RequiredKeys \subseteq ReturnedList(m)[i].keys
            /\ \E j \in 1..Len(candidates) :
                  /\ RequiredKeys \subseteq candidates[j].keys
                  /\ \A k \in RequiredKeys : Get(ReturnedList(m)[i], k) = Get(candidates[j], k)

\* A call returned a record although one candidate, with both coordinates,
\* had no subcategory.
C9_Witness ==
    /\ ReturnedOK
    /\ \E m \in ReturnedKeys : Len(ReturnedList(m)) >= 1
    /\ \E j \in 1..Len(candidates) : LacksSubcategory(candidates[j])

C11_FailureNotCached ==
    [][\A m \in ModeSet :
          LET key == GraphKey(user_lat, UserLon, radius_m, m)
          IN /\ (got[m] = "pending" /\ got'[m] = "failed")
                  => /\ cached_graph' = cached_graph
                     /\ key \notin CacheKeys(cached_graph')
                     /\ graph'[m] = None
                     /\ result' = NoResult /\ pc' = "mode"
             /\ (got[m] = "pending" /\ got'[m] # "pending" /\ key \notin CacheKeys(cached_graph))
                  => provider_calls' = provider_calls + 1
             /\ \A i \in 1..Len(cached_graph') : cached_graph'[i].graph # None]_vars

\* drive failed, the request went on to build and rank walk, and returned
C11_Witness ==
    /\ got["drive"] = "failed" /\ got["walk"] = "built"
    /\ GraphKey(user_lat, UserLon, radius_m, "drive") \notin CacheKeys(cached_graph)
    /\ provider_calls = 2
    /\ result.kind = "return"

\* ------------------------------------------------------------ the cache
Entries(cache) == {cache[i] : i \in 1..Len(cache)}
\* the entry of a cache that was stored first
EarliestInserted(cache) ==
    CHOOSE e \in Entries(cache) :
        \A f \in Entries(cache) : hist.at[KeyId(e.key)] <= hist.at[KeyId(f.key)]
\* a call that has just built and stored the graph of a key the cache,
\* then full, did not hold
BuiltIntoFull(t) ==
    /\ thr[t].pc = "done" /\ thr[t].ret = "built"
    /\ Len(hist.before) = MAX_CACHE_SIZE
    /\ KeyOf(thr[t].key) \notin CacheKeys(hist.before)
\* stores made since the latest store of key k
StoresSince(k) == hist.clock - hist.at[k]

\* C12: the cache never holds more than MAX_CACHE_SIZE entries, whatever the
\* interleaving of the get_network_graph calls.
C12_CacheBounded == Len(cached_graph) <= MAX_CACHE_SIZE

\* C13: in sequential use, a call that builds the graph of a new key while
\* the cache holds MAX_CACHE_SIZE entries evicts exactly one entry, the one
\* stored earliest (hits in between change nothing), keeps every other
\* entry, and leaves MAX_CACHE_SIZE entries.
C13_EvictsEarliestInserted ==
    \A t \in Threads :
        BuiltIntoFull(t) =>
            /\ Len(cached_graph) = MAX_CACHE_SIZE
            /\ Entries(hist.before) \ Entries(cached_graph) = {EarliestInserted(hist.before)}
            /\ Entries(cached_graph) \ Entries(hist.before)
                  = {[key |-> KeyOf(thr[t].key), graph |-> thr[t].out]}

\* the entry evicted had been hit while it was the oldest
C13_Witness ==
    \E t \in Threads :
        /\ BuiltIntoFull(t)
        /\ hist.hit # 0
        /\ KeyOf(hist.hit) \in CacheKeys(hist.before)
        /\ KeyOf(hist.hit) \notin CacheKeys(cached_graph)

\* C14: in sequential use, once the graph of a key has been stored, a call
\* with that key made while fewer than MAX_CACHE_SIZE stores followed does
\* not go to the provider and returns the graph stored; every entry holds
\* the graph stored for its own key, and no two entries have the same key.
C14_HitUntilEvicted ==
    /\ \A t \in Threads :
          LET k == thr[t].key
          IN /\ (thr[t].pc \in {"provider", "len", "pop", "store"}
                   \/ (thr[t].pc = "done" /\ thr[t].ret \in {"failed", "raise"}))
                  => (hist.at[k] = 0 \/ StoresSince(k) >= MAX_CACHE_SIZE)
             /\ (thr[t].pc = "done" /\ thr[t].ret = "hit")
                  => (hist.at[k] > 0 /\ thr[t].out = hist.graph[k])
    /\ \A i \in 1..Len(cached_graph) :
          /\ cached_graph[i].graph = hist.graph[KeyId(cached_graph[i].key)]
          /\ KeyOf(KeyId(cached_graph[i].key)) = cached_graph[i].key
          /\ \A j \in 1..Len(cached_graph) : cached_graph[i].key = cached_graph[j].key => i = j

\* a hit on the oldest entry of the full cache, MAX_CACHE_SIZE - 1 stores
\* after its own, while an entry of the same place and radius for the other
\* mode is cached beside it
C14_Witness ==
    \E t \in Threads :
        /\ thr[t].pc = "done" /\ thr[t].ret = "hit"
        /\ StoresSince(thr[t].key) = MAX_CACHE_SIZE - 1
        /\ \E i \in 1..Len(cached_graph) :
              LET key == cached_graph[i].key
                  mine == KeyOf(thr[t].key)
              IN key # mine /\ key[1] = mine[1] /\ key[3] = mine[3]

\* C19: two calls for the same uncached key, side by side, can both miss and
\* both build; when both have stored their graph the cache holds one entry
\* for the key.
C19_SingleEntryAfterRace ==
    \A t \in Threads : \A u \in Threads \ {t} :
        (/\ thr[t].pc = "done" /\ thr[t].ret = "built"
         /\ thr[u].pc = "done" /\ thr[u].ret = "built"
         /\ thr[t].key = thr[u].key)
        => Cardinality({i \in 1..Len(cached_graph) : cached_graph[i].key = KeyOf(thr[t].key)}) = 1

C19_Witness ==
    /\ thr["t1"].pc = "done" /\ thr["t1"].ret = "built"
    /\ thr["t2"].pc = "done" /\ thr["t2"].ret = "built"
    /\ thr["t1"].key = thr["t2"].key
    /\ Cardinality({i \in 1..Len(cached_graph) : cached_graph[i].key = KeyOf(thr["t1"].key)}) = 1

\* --------------------------------------------------------- the worker pool
ModeKey(m) == GraphKey(user_lat, UserLon, radius_m, m)
Warm == \A m \in ModeSet : ModeKey(m) \in CacheKeys(cached_graph)
\* What the arguments and the graphs of the cache determine: the lists of
\* both modes ranked from the cached graphs, or the exception of the first
\* mode that raises.
WarmRank(m) ==
    RankForMode(cached_graph[CacheLookup(cached_graph, ModeKey(m))].graph,
                candidates, user_lat, m, radius_m, n)
WarmAnswer ==
    IF candidates = <<>> THEN Returned(EmptyDict)
    ELSE IF \E m \in ModeSet : WarmRank(m).tag = "raise" THEN RaisedResult
    ELSE Returned([keys |-> ModeSet, val |-> [m \in ModeSet |-> WarmRank(m).list]])
TieGroup(s, m, d) == SelectSeq(s, LAMBDA poi : Get(poi, DistKey(m)) = d)
IsPrefix(a, b) == Len(a) <= Len(b) /\ a = SubSeq(b, 1, Len(a))
WalkStarted == got["walk"] # "pending" \/ pool["walk"].state # "none"

\* C15: a call made against a warm cache (both keys cached, so the cache
\* does not change) ends with the outcome that its arguments and the cached
\* graphs determine, in every order in which the workers start and finish:
\* two such calls with the same arguments end alike.
C15_Deterministic ==
    (pc = "done" /\ Warm /\ provider_calls = 0) => result = WarmAnswer

\* a warm call that returned two records for a mode whose tasks finished in
\* the reverse of the input order
C15_Witness ==
    /\ ReturnedOK /\ Warm /\ provider_calls = 0
    /\ got = [m \in ModeSet |-> "hit"]
    /\ \E m \in ModeSet :
          /\ Len(ReturnedList(m)) = 2
          /\ ReturnedList(m)[1] # ReturnedList(m)[2]
          /\ pool[m].completed = <<2, 1>>

\* C16: in a returned list the records of equal distance stand in the order
\* their candidates had in the input, in every order in which the workers
\* start and finish.
C16_TiesInInputOrder ==
    ReturnedOK =>
        \A m \in ReturnedKeys :
            Available(m) =>
                \A d \in 0..radius_m :
                    IsPrefix(TieGroup(ReturnedList(m), m, d), TieGroup(Survivors(m), m, d))

\* two different candidates at the same distance, returned in input order
\* though the task of the second finished first
C16_Witness ==
    /\ ReturnedOK
    /\ \E m \in ReturnedKeys :
          /\ Len(ReturnedList(m)) = 2
          /\ Get(ReturnedList(m)[1], "latitude") # Get(ReturnedList(m)[2], "latitude")
          /\ Get(ReturnedList(m)[1], DistKey(m)) = Get(ReturnedList(m)[2], DistKey(m))
          /\ Get(ReturnedList(m)[1], "latitude") = Get(handed[1], "latitude")
          /\ pool[m].completed[1] = 2

\* C17: nothing of walk, neither its graph request nor its pool, starts
\* before the pass of drive is over: the graph of drive was asked for, every
\* task dispatched for drive has finished and the drive pool has shut down
\* (or was never made, drive having no graph).
C17_DriveBeforeWalk ==
    WalkStarted =>
        /\ got["drive"] # "pending"
        /\ pool["drive"].state \in {"none", "shut"}
        /\ pool["drive"].running = {}
        /\ Len(pool["drive"].completed) = pool["drive"].submitted
        /\ pool["drive"].state = "none" => got["drive"] = "failed"

\* a walk task is running after both drive tasks finished, the second first
C17_Witness ==
    /\ pool["walk"].running # {}
    /\ pool["drive"].state = "shut"
    /\ pool["drive"].completed = <<2, 1>>

\* C18: a pool is made only for a mode whose graph is there; it is handed
\* one task per candidate, no task runs twice, at no time more than
\* min(MAX_WORKERS, number of candidates) tasks are running, and when the
\* list of the mode is stored every task has run once.
C18_OneTaskPerCandidateBounded ==
    \A m \in ModeSet :
        pool[m].state # "none" =>
            /\ Available(m)
            /\ pool[m].submitted = Len(handed)
            /\ Cardinality(pool[m].running) <= Min(MAX_WORKERS, Len(handed))
            /\ pool[m].running \cap Finished(m) = {}
            /\ Cardinality(Finished(m)) = Len(pool[m].completed)
            /\ pool[m].running \cup Finished(m) = 1..pool[m].started
            /\ pool[m].started <= pool[m].submitted
            /\ Has(all_results, m) => Finished(m) = 1..Len(handed)

\* more candidates than MAX_WORKERS: MAX_WORKERS tasks run, one waits
C18_Witness ==
    \E m \in ModeSet :
        /\ Len(handed) > MAX_WORKERS
        /\ Cardinality(pool[m].running) = MAX_WORKERS
        /\ pool[m].started < pool[m].submitted

\* C20: with the provider and every task returning, a call that has begun
\* its passes ends by returning with both modes processed.
C20_ReturnsBothModes ==
    (pc = "mode") ~> (pc = "done" /\ result.kind = "return" /\ mi > Len(Modes))

\* A candidate at the user's coordinates.
Coincident(poi) == HasCoords(poi) /\ Get(poi, "latitude") = user_lat
SameNode(poi, m) ==
    /\ GetNodeForCoords(graph[m], Get(poi, "latitude")) # ResolveError
    /\ GetNodeForCoords(graph[m], Get(poi, "latitude")) = GetNodeForCoords(graph[m], user_lat)
AtZero(poi, m) == HasCoords(poi) /\ RouteOf(poi, m) = 0

\* C21 as stated: a candidate at the user's coordinates resolves to the
\* user's node, gets route distance 0 in every mode whose graph is
\* available, and is the first record of that mode's returned list.
C21_CoincidentRanksFirst ==
    ReturnedOK =>
        \A i \in 1..Len(candidates) : Coincident(candidates[i]) =>
            \A m \in ModeSet : Available(m) =>
                /\ SameNode(candidates[i], m)
                /\ \A k \in 1..Len(route_log[m]) :
                      route_log[m][k].lat = user_lat => route_log[m][k].d = 0
                /\ m \in ReturnedKeys
                /\ Len(ReturnedList(m)) >= 1
                /\ ReturnedList(m)[1] = DictSet(candidates[i], DistKey(m), 0)

\* C21, amended: a candidate at the user's coordinates resolves to the
\* user's node and gets route distance 0 in every mode whose graph is
\* available; when n >= 1 that mode's returned list begins with the earliest
\* input candidate at route distance 0, which is the coincident candidate
\* unless a candidate before it in the input resolves to the user's node too.
C21_CoincidentAtZero ==
    ReturnedOK =>
        \A i \in 1..Len(handed) : Coincident(handed[i]) =>
            \A m \in ModeSet : Available(m) =>
                /\ SameNode(handed[i], m)
                /\ \A k \in 1..Len(route_log[m]) :
                      route_log[m][k].lat = user_lat => route_log[m][k].d = 0
                /\ m \in ReturnedKeys
                /\ n >= 1 =>
                      /\ Len(ReturnedList(m)) >= 1
                      /\ \E j \in 1..i :
                            /\ AtZero(handed[j], m)
                            /\ \A k \in 1..(j - 1) : ~AtZero(handed[k], m)
                            /\ ReturnedList(m)[1] = DictSet(handed[j], DistKey(m), 0)

\* A call with n >= 1 returned for an available mode a list whose first
\* record is not the coincident candidate but a candidate at another latitude
\* that came before it in the input and resolved to the user's node.
C21_Witness ==
    /\ ReturnedOK
    /\ n >= 1
    /\ Len(handed) = 2
    /\ Coincident(handed[2])
    /\ \E m \in ReturnedKeys :
          /\ Available(m)
          /\ AtZero(handed[1], m)
          /\ Get(handed[1], "latitude") # user_lat
          /\ ReturnedList(m)[1] = DictSet(handed[1], DistKey(m), 0)

\* The graph the call in progress was handed for its current mode, and the
\* raw graph the provider returns for that request.
CurrentGraph == graph[Modes[mi]]
CurrentRaw == GraphFromPoint(user_lat, GraphDist2(radius_m, Modes[mi]), Modes[mi])
Joined(g, S) == \A u \in S : \A v \in S : AstarPathLength(g, u, v) # NoPath

\* C22: a graph returned by get_network_graph, which is also the graph cached
\* under the key, is the subgraph of the provider's raw graph on a strongly
\* connected set of nodes that no strongly connected set exceeds in size;
\* every ordered pair of its nodes is joined by a path inside it, so a path
\* query between two of its nodes never yields no path.
C22_LargestStronglyConnected ==
    (pc = "rank" /\ mi <= Len(Modes)) =>
        /\ CurrentKey \in CacheKeys(cached_graph)
        /\ cached_graph[CacheLookup(cached_graph, CurrentKey)].graph = CurrentGraph
        /\ CurrentGraph.nodes # {}
        /\ CurrentGraph.nodes \subseteq CurrentRaw.nodes
        /\ CurrentGraph.edges =
             {e \in CurrentRaw.edges : e[1] \in CurrentGraph.nodes /\ e[2] \in CurrentGraph.nodes}
        /\ Joined(CurrentGraph, CurrentGraph.nodes)
        /\ \A S \in SUBSET CurrentRaw.nodes :
              Cardinality(S) > Cardinality(CurrentGraph.nodes) => ~Joined(CurrentRaw, S)

\* A graph was returned that has fewer nodes than the provider's raw graph:
\* a node of the raw graph that no path reaches was left out.
C22_Witness ==
    /\ pc = "rank" /\ mi <= Len(Modes)
    /\ got[Modes[mi]] = "built"
    /\ Cardinality(CurrentGraph.nodes) >= 2
    /\ CurrentGraph.nodes # CurrentRaw.nodes

\* C23: the distance handed to the provider is a function of the mode and
\* radius_m alone: for walk min(radius_m * 1.5, 2000) with simplify off, for
\* the other mode min(radius_m * 2, 5000) with simplify on; it is never
\* above 2000 for walk nor above 5000 for drive.  (dist2 is the distance
\* doubled.)
C23_ProviderDistance ==
    provider_args # NoRequest =>
        /\ provider_args.network_type \in ModeSet
        /\ (pc = "rank" /\ got[Modes[mi]] = "built") => provider_args.network_type = Modes[mi]
        /\ provider_args.network_type = "walk" =>
              /\ provider_args.simplify = FALSE
              /\ provider_args.dist2 = IF 3 * radius_m <= 4000 THEN 3 * radius_m ELSE 4000
              /\ provider_args.dist2 <= 2 * 2000
        /\ provider_args.network_type # "walk" =>
              /\ provider_args.simplify = TRUE
              /\ provider_args.dist2 = IF 4 * radius_m <= 10000 THEN 4 * radius_m ELSE 10000
              /\ provider_args.dist2 <= 2 * 5000

\* The provider was asked for a walk graph with the distance at its cap, for
\* a radius_m whose drive distance is below the drive cap.
C23_Witness ==
    /\ provider_args.network_type = "walk"
    /\ provider_args.dist2 = 2 * WALK_DIST_CAP
    /\ 3 * radius_m > 2 * WALK_DIST_CAP
    /\ 4 * radius_m < 2 * DRIVE_DIST_CAP
    /\ got["drive"] = "built"

\* s from its i-th element on is found, in order, in t from its j-th element on
RECURSIVE EmbedsFrom(_, _, _, _)
EmbedsFrom(s, t, i, j) ==
    IF i > Len(s) THEN TRUE
    ELSE IF j > Len(t) THEN FALSE
    ELSE IF s[i] = t[j] THEN EmbedsFrom(s, t, i + 1, j + 1)
    ELSE EmbedsFrom(s, t, i, j + 1)
IsSubsequence(s, t) == EmbedsFrom(s, t, 1, 1)
Prefiltered == pc \in {"mode", "rank", "done"} /\ Len(candidates) > PREFILTER_THRESHOLD

\* C24: every candidate in the output of the prefilter has both coordinates
\* and a great-circle distance to the user of at most radius_m * 1.5, and the
\* output is a sub-sequence of the input, in input order.
C24_PrefilterSound ==
    Prefiltered =>
        /\ \A i \in 1..Len(handed) :
              /\ HasCoords(handed[i])
              /\ Get(handed[i], "latitude") # NaN
              /\ 2 * Abs(Get(handed[i], "latitude") - user_lat) <= 3 * radius_m
        /\ IsSubsequence(handed, candidates)

\* The prefilter kept some candidates of a list and dropped others.
C24_Witness ==
    /\ Prefiltered
    /\ Len(handed) >= 1
    /\ Len(handed) < Len(candidates)
    /\ \E i \in 1..Len(candidates) :
          /\ HasCoords(candidates[i])
          /\ Get(candidates[i], "latitude") # NaN
          /\ 2 * Abs(Get(candidates[i], "latitude") - user_lat) > 3 * radius_m

\* The latitudes get_route_distance was called with in the pass of mode m
LoggedLats(m) == [k \in 1..Len(route_log[m]) |-> route_log[m][k].lat]
LatsOf(s) == [k \in 1..Len(s) |-> Get(s[k], "latitude")]
BeyondBound(lat) == lat # NaN /\ 2 * Abs(lat - user_lat) > 3 * radius_m
Ranked(m) == pc \in {"mode", "rank", "done"} /\ Has(all_results, m)

\* C25 as stated: with more than 50 candidates no route distance is computed
\* for a candidate whose straight-line distance exceeds radius_m * 1.5; with
\* 50 or fewer a route distance is computed for every candidate.
C25_RouteForEveryCandidate ==
    \A m \in ModeSet : Ranked(m) =>
        /\ Len(candidates) > PREFILTER_THRESHOLD =>
              \A k \in 1..Len(route_log[m]) : ~BeyondBound(route_log[m][k].lat)
        /\ Len(candidates) <= PREFILTER_THRESHOLD =>
              Len(route_log[m]) = Len(candidates)

\* C25, amended: the prefilter is applied exactly when there are more than 50
\* candidates, with bound radius_m * 1.5.  With more than 50 the list handed
\* on holds no candidate beyond the bound and no route distance is computed
\* for one; with 50 or fewer the whole list is handed on and in every mode
\* ranked a route distance is computed, in input order, for every candidate
\* that has both coordinates (a record without one has no route computed).
C25_PrefilterAboveThreshold ==
    /\ (pc \in {"mode", "rank", "done"} /\ Len(candidates) > PREFILTER_THRESHOLD) =>
          \A i \in 1..Len(handed) :
              HasCoords(handed[i]) /\ ~BeyondBound(Get(handed[i], "latitude"))
    /\ (pc \in {"mode", "rank", "done"} /\ Len(candidates) <= PREFILTER_THRESHOLD) =>
          handed = candidates
    /\ \A m \in ModeSet : Ranked(m) =>
          /\ Len(candidates) > PREFILTER_THRESHOLD =>
                \A k \in 1..Len(route_log[m]) : ~BeyondBound(route_log[m][k].lat)
          /\ Len(candidates) <= PREFILTER_THRESHOLD =>
                LoggedLats(m) = LatsOf(SelectSeq(candidates, HasCoords))

\* A list of exactly 50 candidates, each beyond the bound, was ranked with a
\* route distance computed for each of them.
C25_Witness ==
    /\ Len(candidates) = PREFILTER_THRESHOLD
    /\ \E m \in ModeSet :
          /\ Ranked(m)
          /\ Len(route_log[m]) = PREFILTER_THRESHOLD
          /\ \A k \in 1..Len(route_log[m]) : BeyondBound(route_log[m][k].lat)

\* The ranking of the whole candidate list on the graph of mode m
Unfiltered(m) == RankForMode(graph[m], candidates, user_lat, m, radius_m, n)
\* On the graphs of the call no candidate is nearer by route than in a
\* straight line.
RouteAtLeastStraight ==
    \A m \in ModeSet : Available(m) =>
        \A i \in 1..Len(candidates) :
            (HasCoords(candidates[i]) /\ Get(candidates[i], "latitude") # NaN) =>
                RouteOf(candidates[i], m) >= Abs(Get(candidates[i], "latitude") - user_lat)

\* C26: when no candidate is nearer by route than in a straight line, a call
\* with more than 50 candidates ends as the ranking of all the candidates
\* without the prefilter does: it returns the same mode keys with the same
\* records in the same order.
C26_PrefilterPreservesResult ==
    (pc = "done" /\ Len(candidates) > PREFILTER_THRESHOLD /\ RouteAtLeastStraight) =>
        IF \E m \in ModeSet : Available(m) /\ Unfiltered(m).tag = "raise"
        THEN result.kind = "raise"
        ELSE /\ result.kind = "return"
             /\ ReturnedKeys = {m \in ModeSet : Available(m)}
             /\ \A m \in ReturnedKeys : ReturnedList(m) = Unfiltered(m).list

\* C27: from the call to its return the caller's candidate list, and every
\* record of it, stays as it was handed in; a record stored for a mode is a
\* candidate with that mode's distance field added, and carries no distance
\* field of the other mode.
C27_CandidatesUnchanged ==
    [][/\ (pc # "idle" /\ pc' # "idle") => candidates' = candidates
       /\ \A m \in ModeSet : \A i \in 1..Len(all_results'.val[m]) :
             LET rec == all_results'.val[m][i]
             IN /\ ~Has(rec, DistKey(OtherMode(m)))
                /\ \E j \in 1..Len(candidates') :
                      /\ ~Has(candidates'[j], DistKey(m))
                      /\ rec = DictSet(candidates'[j], DistKey(m), Get(rec, DistKey(m)))]_vars

\* A call of more than 50 candidates went through the prefilter and returned
\* records of the same candidate for both modes.
C27_Witness ==
    /\ ReturnedOK
    /\ Len(candidates) > PREFILTER_THRESHOLD
    /\ Len(handed) < Len(candidates)
    /\ ReturnedKeys = ModeSet
    /\ Len(ReturnedList("drive")) >= 1
    /\ Len(ReturnedList("walk")) >= 1
    /\ \E j \in 1..Len(candidates) :
          /\ ReturnedList("drive")[1] =
               DictSet(candidates[j], DistKey("drive"), Get(ReturnedList("drive")[1], DistKey("drive")))
          /\ ReturnedList("walk")[1] =
               DictSet(candidates[j], DistKey("walk"), Get(ReturnedList("walk")[1], DistKey("walk")))

\* The straight-line distance of a record from the user, and the order of two
\* such distances; a distance that is not a number is in no order.
StraightLine(poi) == IF Get(poi, "latitude") = NaN THEN NaN ELSE Abs(Get(poi, "latitude") - user_lat)
NoFarther(a, b) == a # NaN /\ b # NaN /\ a <= b

\* C28: a call of the finder's find_top_candidates returns a mapping with the
\* keys drive and walk for every input; each list has min(n, number of
\* candidates) records, all of them candidates, in ascending order of their
\* distance from the user, and every candidate left out is no nearer than
\* any record of the list; for no candidates both lists are empty.
C28_FinderNearestN ==
    pc = "done" =>
        /\ result.kind = "return"
        /\ ReturnedKeys = ModeSet
        /\ \A m \in ModeSet :
              LET L == ReturnedList(m)
              IN /\ Len(L) <= n
                 /\ Len(L) = Min(n, Len(candidates))
                 /\ \A j \in 1..Len(L) : Count(L, L[j]) <= Count(candidates, L[j])
                 /\ \A i \in 1..Len(L) : \A j \in i..Len(L) :
                       NoFarther(StraightLine(L[i]), StraightLine(L[j]))
                 /\ \A i \in 1..Len(candidates) : \A j \in 1..Len(L) :
                       Count(L, candidates[i]) < Count(candidates, candidates[i])
                          => NoFarther(StraightLine(L[j]), StraightLine(candidates[i]))
                 /\ candidates = <<>> => L = <<>>

\* C29: a call with more than 50 candidates none of which the prefilter
\* keeps returns, and every mode whose graph is available maps to an empty
\* list.
C29_NoSurvivorReturnsEmpty ==
    (pc = "done" /\ Len(candidates) > PREFILTER_THRESHOLD /\ handed = <<>>) =>
        /\ result.kind = "return"
        /\ \A m \in ModeSet : Available(m) => (m \in ReturnedKeys /\ ReturnedList(m) = <<>>)

\* C30: no step of get_network_graph calls running side by side makes the
\* cache hold fewer graphs, and a step removes a stored key only when the
\* cache holds 50 entries and the same step stores a key that was not cached.
C30_EvictOnlyToAdmit ==
    [][/\ Len(cached_graph') >= Len(cached_graph)
       /\ CacheKeys(cached_graph) \ CacheKeys(cached_graph') # {} =>
             /\ Len(cached_graph) = MAX_CACHE_SIZE
             /\ CacheKeys(cached_graph') \ CacheKeys(cached_graph) # {}]_vars

====
